---------------------------- MODULE Spec2Model ----------------------------
(***************************************************************************)
(* hermes v0.4.0: the inbox watcher of src/src/extension.ts (lines 72-305) *)
(* as a state machine.                                                     *)
(*                                                                         *)
(* Strings are sequences of symbols.  A symbol is the field separator "|", *)
(* a whitespace character, a letter, or one of the mode keywords, which    *)
(* the model keeps indivisible.  The empty string is <<>>.                 *)
(*                                                                         *)
(* An optional value (a file that may be absent, a regex match that may    *)
(* fail, a null result) is a set with no element or with one element.      *)
(*                                                                         *)
(* Node's event loop runs one callback at a time: an action is the code    *)
(* the handler runs between two suspension points (await).                 *)
(***************************************************************************)
EXTENDS Integers, Sequences, FiniteSets, TLC

(***************************************************************************)
(* Bounds of the model.                                                    *)
(***************************************************************************)
\* Longest raw request content of the exhaustive input set RawInputs.
MaxRawLen == 7
\* Number of request files the caller creates in one behaviour.
MaxRequests == 2
\* Number of times the clock advances in one behaviour.
MaxClock == 2

(***************************************************************************)
(* Strings: trim, split, join.                                             *)
(***************************************************************************)
Sep == "|"
Whitespace == {" ", "\n"}

RECURSIVE TrimStart(_)
TrimStart(s) ==
    IF s # <<>> /\ Head(s) \in Whitespace THEN TrimStart(Tail(s)) ELSE s

RECURSIVE TrimEnd(_)
TrimEnd(s) ==
    IF s # <<>> /\ s[Len(s)] \in Whitespace
    THEN TrimEnd(SubSeq(s, 1, Len(s) - 1))
    ELSE s

\* String.prototype.trim
Trim(s) == TrimEnd(TrimStart(s))

\* Index of the first separator of s, 0 when there is none.
RECURSIVE IndexOfSep(_, _)
IndexOfSep(s, i) ==
    IF i > Len(s) THEN 0
    ELSE IF s[i] = Sep THEN i
    ELSE IndexOfSep(s, i + 1)

\* raw.split('|'): always at least one segment, "" splits into [""].
RECURSIVE Split(_)
Split(s) ==
    LET i == IndexOfSep(s, 1) IN
    IF i = 0 THEN << s >>
    ELSE << SubSeq(s, 1, i - 1) >> \o Split(SubSeq(s, i + 1, Len(s)))

\* messageParts.join('|')
RECURSIVE Join(_)
Join(parts) ==
    IF parts = <<>> THEN <<>>
    ELSE IF Len(parts) = 1 THEN parts[1]
    ELSE parts[1] \o << Sep >> \o Join(Tail(parts))

\* A destructuring that takes the third segment as the message.
DestructureThird(parts) ==
    [sessionId |-> parts[1], mode |-> parts[2], message |-> parts[3]]

\* const [sessionId, mode, ...messageParts] = parts; message = join
Destructure(parts) ==
    [sessionId |-> parts[1],
     mode      |-> parts[2],
     message   |-> Join(SubSeq(parts, 3, Len(parts)))]

\* !s for a string s
Falsy(s) == s = <<>>


(***************************************************************************)
(* Modes, host commands, the dispatch chain's branches.                    *)
(***************************************************************************)
SEND == << "send" >>
STEER == << "steer" >>
STOP_AND_SEND == << "stop-and-send" >>
QUEUE == << "queue" >>
COMPACT == << "compact" >>

\* The host capability surface: the VS Code commands the handler executes.
openAndSubmit == "workbench.action.chat.open"
cancelCurrent == "workbench.action.chat.cancel"
interruptAndSubmit == "workbench.action.chat.steerWithMessage"
enqueue == "workbench.action.chat.queueMessage"
showUsagePanel == "workbench.action.chat.showContextUsage"
HostCapabilities ==
    {openAndSubmit, cancelCurrent, interruptAndSubmit, enqueue, showUsagePanel}

SteerBlockPct == 95
WarnPct == 80
SteerDelayMs == 100
StopDelayMs == 300
QueueDelayMs == 100
SessionPrefixLen == 8

\* One suspension point of the handler: an executed command or a delay.
\* executeCommand('workbench.action.chat.open', {query, isPartialQuery})
Open(query, isPartialQuery) ==
    [op |-> "host", what |-> openAndSubmit, query |-> query,
     flag |-> isPartialQuery, n |-> 0]
\* executeCommand(command), no argument
Command(command) ==
    [op |-> "host", what |-> command, query |-> <<>>, flag |-> FALSE, n |-> 0]
\* _delay(ms)
Delay(ms) ==
    [op |-> "delay", what |-> "setTimeout", query |-> <<>>, flag |-> FALSE,
     n |-> ms]

\* A chain whose last else sends (v0.1.0 defaulted the mode to send).
BranchDefaultSend(mode) ==
    IF mode = STEER THEN "steer"
    ELSE IF mode = STOP_AND_SEND THEN "stop-and-send"
    ELSE IF mode = QUEUE THEN "queue"
    ELSE IF mode = COMPACT THEN "compact"
    ELSE "send"

\* The branch of the if / else-if chain that an exact comparison selects.
Branch(mode) ==
    IF mode = SEND THEN "send"
    ELSE IF mode = STEER THEN "steer"
    ELSE IF mode = STOP_AND_SEND THEN "stop-and-send"
    ELSE IF mode = QUEUE THEN "queue"
    ELSE IF mode = COMPACT THEN "compact"
    ELSE "unknown"

\* A table whose stop-and-send submits and then cancels.
StepsSubmitThenCancel(branch, message) ==
    CASE branch = "send" -> << Open(message, FALSE) >>
      [] branch = "steer" ->
            << Open(message, TRUE), Delay(SteerDelayMs),
               Command(interruptAndSubmit) >>
      [] branch = "stop-and-send" ->
            << Open(message, FALSE), Delay(StopDelayMs),
               Command(cancelCurrent) >>
      [] branch = "queue" ->
            << Open(message, TRUE), Delay(QueueDelayMs), Command(enqueue) >>
      [] branch = "compact" -> << Command(showUsagePanel) >>
      [] OTHER -> << >>

\* A table whose queue row ends in the steer command.
StepsQueueSteers(branch, message) ==
    CASE branch = "send" -> << Open(message, FALSE) >>
      [] branch = "steer" ->
            << Open(message, TRUE), Delay(SteerDelayMs),
               Command(interruptAndSubmit) >>
      [] branch = "stop-and-send" ->
            << Command(cancelCurrent), Delay(StopDelayMs),
               Open(message, FALSE) >>
      [] branch = "queue" ->
            << Open(message, TRUE), Delay(QueueDelayMs),
               Command(interruptAndSubmit) >>
      [] branch = "compact" -> << Command(showUsagePanel) >>
      [] OTHER -> << >>

\* The awaited steps of a branch, in program order.
Steps(branch, message) ==
    CASE branch = "send" -> << Open(message, FALSE) >>
      [] branch = "steer" ->
            << Open(message, TRUE), Delay(SteerDelayMs),
               Command(interruptAndSubmit) >>
      [] branch = "stop-and-send" ->
            << Command(cancelCurrent), Delay(StopDelayMs),
               Open(message, FALSE) >>
      [] branch = "queue" ->
            << Open(message, TRUE), Delay(QueueDelayMs), Command(enqueue) >>
      [] branch = "compact" -> << Command(showUsagePanel) >>
      [] OTHER -> << >>

(***************************************************************************)
(* The texts the handler writes.  A template string is a record: its fixed *)
(* lead-in is the kind, its interpolated values are the other fields.      *)
(***************************************************************************)
\* sessionId.substring(0, 8)
Substring(s, n) == SubSeq(s, 1, IF Len(s) < n THEN Len(s) ELSE n)

MalformedReason(count) == [kind |-> "Invalid format", segments |-> count]
EmptyReason(sessionId, mode, message) ==
    [kind |-> "Empty field", sessionId |-> sessionId, mode |-> mode,
     message |-> message]
BlockReason(contextPct) ==
    [kind |-> "mode=steer blocked", contextPct |-> contextPct,
     limit |-> SteerBlockPct, hint |-> COMPACT]
UnknownReason(mode) ==
    [kind |-> "Unknown mode", mode |-> mode,
     supported |-> << SEND, STEER, STOP_AND_SEND, QUEUE, COMPACT >>]
ExceptionReason(error) == [kind |-> "Exception", error |-> error]
WarnText(contextPct, patch) ==
    [kind |-> "context warning", contextPct |-> contextPct,
     limit |-> WarnPct, patch |-> patch]

\* An ack text that carries the whole session id.
AckNoteWholeId(branch, sessionId, at) ==
    IF branch = "compact"
    THEN [kind |-> "compact: opened context usage panel", sid |-> {},
          at |-> at]
    ELSE [kind |-> CASE branch = "send" -> "sent"
                     [] branch = "steer" -> "steered (steerWithMessage)"
                     [] branch = "stop-and-send" -> "stop-and-send"
                     [] OTHER -> "queued (queueMessage)",
          sid |-> {sessionId}, at |-> at]

\* The ack text of a branch, formed at the time at (new Date().toISOString());
\* compact's text carries no session id.
AckNote(branch, sessionId, at) ==
    CASE branch = "send" ->
            [kind |-> "sent", sid |-> {Substring(sessionId, SessionPrefixLen)},
             at |-> at]
      [] branch = "steer" ->
            [kind |-> "steered (steerWithMessage)",
             sid |-> {Substring(sessionId, SessionPrefixLen)}, at |-> at]
      [] branch = "stop-and-send" ->
            [kind |-> "stop-and-send",
             sid |-> {Substring(sessionId, SessionPrefixLen)}, at |-> at]
      [] branch = "queue" ->
            [kind |-> "queued (queueMessage)",
             sid |-> {Substring(sessionId, SessionPrefixLen)}, at |-> at]
      [] OTHER ->
            [kind |-> "compact: opened context usage panel", sid |-> {},
             at |-> at]

(***************************************************************************)
(* The context probe file.                                                 *)
(***************************************************************************)
\* parseFloat of a matched text that is no number ("." or "..").
NaN == -1
\* a > b on numbers, false when a is NaN
Gt(a, b) == a # NaN /\ a > b

\* parseNum / parseStr: the line's value, the default when no line matches.
ParseLine(line, def) == IF line = {} THEN def ELSE CHOOSE v \in line : TRUE

\* _readContextProbe: null ({}) when the file is missing or the read throws.
ReadContextProbe(file, readable) ==
    IF file = {} \/ ~readable THEN {}
    ELSE LET content == CHOOSE c \in file : TRUE IN
         {[contextPct |-> ParseLine(content.context_pct, 0),
           patch      |-> ParseLine(content.patch, 0),
           rsc        |-> ParseLine(content.rsc, 0),
           state      |-> ParseLine(content.state, "unknown")]}

(***************************************************************************)
(* State.                                                                  *)
(*   inbox[id]    the files {id}.msg, .ack, .err, .warn: absent or content *)
(*   probe        the file context.probe: absent or its lines              *)
(*   run[id]      the handler invocation for {id}.msg: where it is         *)
(*                suspended, its locals, and the record of what it has     *)
(*                done (trace)                                             *)
(*   created      how many request files the caller has created            *)
(*   clock        the time of the system clock                             *)
(*   host         the chat panel of the host: whether its agent is busy,   *)
(*                the requests whose submitted message it ignored, the     *)
(*                text in its input box, and for each request the text it  *)
(*                has submitted, steered or queued                         *)
(***************************************************************************)
VARIABLES inbox, probe, run, created, clock, host

vars == << inbox, probe, run, created, clock, host >>

\* The basenames of the request files.
Ids == {"req-a", "req-b"}
Exts == {"msg", "ack", "err", "warn"}

NoFiles == [msg |-> {}, ack |-> {}, err |-> {}, warn |-> {}]
NoRun ==
    [pc |-> "none", sessionId |-> <<>>, mode |-> <<>>, message |-> <<>>,
     step |-> 0, trace |-> <<>>]

\* What a run has done and what has come back to it, in order.
ReadEv(content, ok) ==
    [op |-> "read", what |-> "msg", content |-> content, ok |-> ok]
ProbeEv(result) == [op |-> "probe", what |-> "context.probe", result |-> result]
WriteEv(ext, content, ok) ==
    [op |-> "write", what |-> ext, content |-> content, ok |-> ok]
UnlinkEv(ok) == [op |-> "unlink", what |-> "msg", ok |-> ok]
ReturnedEv(step) == [op |-> "returned", what |-> step.what]
RaisedEv(step, error) == [op |-> "raised", what |-> step.what, error |-> error]

\* The host with an idle agent, before any request.
IdleHost ==
    [busy |-> FALSE, dropped |-> {}, input |-> << >>,
     committed |-> [id \in Ids |-> {}]]

\* chat.open with isPartialQuery false submits the input (acceptInput), which
\* the panel takes when the agent is idle; while the agent is busy the panel
\* may ignore it, and the command returns all the same.
MayIgnore(step) ==
    IF host.busy /\ step.what = openAndSubmit /\ ~step.flag
    THEN BOOLEAN ELSE {FALSE}

\* What the panel does with a command that returns.  chat.open puts the query
\* in the input box and, when isPartialQuery is false, submits it (unless
\* ignored); steerWithMessage and queueMessage take no argument: they commit
\* what is in the input box at that time and empty it.
HostTakes(h, id, step, ignored) ==
    IF step.what = openAndSubmit
    THEN IF step.flag
         THEN [h EXCEPT !.input = step.query]
         ELSE IF ignored
         THEN [h EXCEPT !.input = step.query, !.dropped = @ \cup {id}]
         ELSE [h EXCEPT !.input = << >>, !.committed[id] = {step.query}]
    ELSE IF step.what \in {interruptAndSubmit, enqueue}
    THEN [h EXCEPT !.input = << >>, !.committed[id] = {h.input}]
    ELSE h

\* Results of the file system calls of one callback (TRUE: the call
\* succeeds, FALSE: it throws).
IOOutcomes ==
    [read : BOOLEAN, probe : BOOLEAN, warn : BOOLEAN, write : BOOLEAN,
     unlink : BOOLEAN]

\* The calls of _cleanup alone: the other calls are not made.
CleanupOutcomes == { io \in IOOutcomes : io.read /\ io.probe /\ io.warn }

\* The error messages a rejected command or a failed read carries.
ReadError == "EACCES: permission denied"
HostErrors == {"command failed"}

Init ==
    /\ inbox = [id \in Ids |-> NoFiles]
    /\ probe = {}
    /\ run = [id \in Ids |-> NoRun]
    /\ created = 0
    /\ clock = 0
    /\ host = IdleHost

(***************************************************************************)
(* The handler's pieces.  Each takes the files of the request (f) and the  *)
(* run (r) as they are, and gives them as the piece leaves them.           *)
(***************************************************************************)
\* A _cleanup whose callers all pass ackFile.
CleanupIntoAck(f, r, ext, content, io) ==
    [f |-> [f EXCEPT !["ack"] = IF io.write THEN {content} ELSE @,
                     !["msg"] = IF io.unlink THEN {} ELSE @],
     r |-> [r EXCEPT !.pc = "done",
                     !.trace = @ \o << WriteEv("ack", content, io.write),
                                       UnlinkEv(io.unlink) >>]]

\* A _cleanup with one try around both calls: a write that throws skips the
\* unlink.
CleanupOneTry(f, r, ext, content, io) ==
    IF io.write
    THEN [f |-> [f EXCEPT ![ext] = {content},
                          !["msg"] = IF io.unlink THEN {} ELSE @],
          r |-> [r EXCEPT !.pc = "done",
                          !.trace = @ \o << WriteEv(ext, content, TRUE),
                                            UnlinkEv(io.unlink) >>]]
    ELSE [f |-> f,
          r |-> [r EXCEPT !.pc = "done",
                          !.trace = @ \o << WriteEv(ext, content, FALSE) >>]]

\* _cleanup(outFile, content): write, then unlink, each in its own try.
Cleanup(f, r, ext, content, io) ==
    [f |-> [f EXCEPT ![ext] = IF io.write THEN {content} ELSE @,
                     !["msg"] = IF io.unlink THEN {} ELSE @],
     r |-> [r EXCEPT !.pc = "done",
                     !.trace = @ \o << WriteEv(ext, content, io.write),
                                       UnlinkEv(io.unlink) >>]]

\* _writeWarn(content)
WriteWarn(f, r, content, io) ==
    [f |-> [f EXCEPT !["warn"] = IF io.warn THEN {content} ELSE @],
     r |-> [r EXCEPT !.trace = @ \o << WriteEv("warn", content, io.warn) >>]]

\* A handler that does not await the last step of its branch: it calls it,
\* writes the ack and unlinks the request while the call is pending.
InvokeEagerAck(f, r, k) ==
    LET steps == Steps(Branch(r.mode), r.message)
        note == AckNote(Branch(r.mode), r.sessionId, clock)
    IN  IF k < Len(steps)
        THEN [f |-> f,
              r |-> [r EXCEPT !.pc = "await", !.step = k,
                              !.trace = @ \o << steps[k] >>]]
        ELSE [f |-> [f EXCEPT !["ack"] = {note}, !["msg"] = {}],
              r |-> [r EXCEPT !.pc = "await", !.step = k,
                              !.trace = @ \o << steps[k],
                                                WriteEv("ack", note, TRUE),
                                                UnlinkEv(TRUE) >>]]

\* The handler calls the k-th step of its branch and suspends on it.
Invoke(f, r, k) ==
    [f |-> f,
     r |-> [r EXCEPT !.pc = "await", !.step = k,
                     !.trace = @ \o << Steps(Branch(r.mode), r.message)[k] >>]]

\* The if / else-if chain on mode, up to its first await.
Dispatch(f, r, io) ==
    IF Branch(r.mode) = "unknown"
    THEN Cleanup(f, r, "err", UnknownReason(r.mode), io)
    ELSE Invoke(f, r, 1)

\* A segment check that lets two segments through.
MalformedBelowTwo(parts) == Len(parts) < 2

\* parts.length < 3
Malformed(parts) == Len(parts) < 3

\* The v0.1.0 check, which left the mode out.
EmptyFieldNoMode(d) == Falsy(d.sessionId) \/ Falsy(d.message)

\* !sessionId || !mode || !message
EmptyField(d) == Falsy(d.sessionId) \/ Falsy(d.mode) \/ Falsy(d.message)

\* A block test that also holds back a send while the probe says running.
BlockedWhileRunning(p, mode) ==
    \/ Gt(p.contextPct, SteerBlockPct) /\ mode = STEER
    \/ p.state = "running" /\ mode = SEND

\* A block test that includes the limit itself.
BlockedAtLimit(p, mode) == p.contextPct >= SteerBlockPct /\ mode = STEER

\* probe.contextPct > 95 && mode === 'steer'
Blocked(p, mode) == Gt(p.contextPct, SteerBlockPct) /\ mode = STEER

\* A warning test against the blocking level.
WarnedAboveBlockLevel(p) == Gt(p.contextPct, SteerBlockPct)

\* A warning test that also counts the patches.
WarnedOrManyPatches(p) == Gt(p.contextPct, WarnPct) \/ p.patch >= 10

\* probe.contextPct > 80
Warned(p) == Gt(p.contextPct, WarnPct)

\* A probe check that tests the warning level first, in an else-if chain.
ProbeCheckWarnFirst(f, r, file, io) ==
    LET result == ReadContextProbe(file, io.probe)
        r1 == [r EXCEPT !.trace = @ \o << ProbeEv(result) >>]
        p == CHOOSE x \in result : TRUE
    IN  IF result # {} /\ Warned(p)
        THEN LET w == WriteWarn(f, r1, WarnText(p.contextPct, p.patch), io)
             IN  Dispatch(w.f, w.r, io)
        ELSE IF result # {} /\ Blocked(p, r.mode)
        THEN Cleanup(f, r1, "err", BlockReason(p.contextPct), io)
        ELSE Dispatch(f, r1, io)

\* A probe check that writes the warning before it tests the block.
ProbeCheckWarnThenBlock(f, r, file, io) ==
    LET result == ReadContextProbe(file, io.probe)
        r1 == [r EXCEPT !.trace = @ \o << ProbeEv(result) >>]
        p == CHOOSE x \in result : TRUE
        w == IF result # {} /\ Warned(p)
             THEN WriteWarn(f, r1, WarnText(p.contextPct, p.patch), io)
             ELSE [f |-> f, r |-> r1]
    IN  IF result # {} /\ Blocked(p, r.mode)
        THEN Cleanup(w.f, w.r, "err", BlockReason(p.contextPct), io)
        ELSE Dispatch(w.f, w.r, io)

\* A probe check whose read of the file is outside any try: a read that
\* throws reaches the catch block of the handler.
ProbeCheckUnguardedRead(f, r, file, io) ==
    LET result == ReadContextProbe(file, io.probe)
        r1 == [r EXCEPT !.trace = @ \o << ProbeEv(result) >>]
        p == CHOOSE x \in result : TRUE
    IN  IF file # {} /\ ~io.probe
        THEN Cleanup(f, r1, "err", ExceptionReason(ReadError), io)
        ELSE IF result # {} /\ Blocked(p, r.mode)
        THEN Cleanup(f, r1, "err", BlockReason(p.contextPct), io)
        ELSE IF result # {} /\ Warned(p)
        THEN LET w == WriteWarn(f, r1, WarnText(p.contextPct, p.patch), io)
             IN  Dispatch(w.f, w.r, io)
        ELSE Dispatch(f, r1, io)

\* The context probe check.
ProbeCheck(f, r, file, io) ==
    LET result == ReadContextProbe(file, io.probe)
        r1 == [r EXCEPT !.trace = @ \o << ProbeEv(result) >>]
        p == CHOOSE x \in result : TRUE
    IN  IF result # {} /\ Blocked(p, r.mode)
        THEN Cleanup(f, r1, "err", BlockReason(p.contextPct), io)
        ELSE IF result # {} /\ Warned(p)
        THEN LET w == WriteWarn(f, r1, WarnText(p.contextPct, p.patch), io)
             IN  Dispatch(w.f, w.r, io)
        ELSE Dispatch(f, r1, io)

\* A catch block that writes the reason and leaves the request file.
CatchWriteOnly(f, r, error, io) ==
    [f |-> [f EXCEPT !["err"] = IF io.write THEN {ExceptionReason(error)}
                                ELSE @],
     r |-> [r EXCEPT !.pc = "done",
                     !.trace = @ \o << WriteEv("err", ExceptionReason(error),
                                               io.write) >>]]

\* The catch block.
Catch(f, r, error, io) == Cleanup(f, r, "err", ExceptionReason(error), io)

\* A handler that reads the probe file on entry, before it reads the request.
HandleProbeFirst(f, r, file, io) ==
    LET r0 == [r EXCEPT !.trace =
                   @ \o << ProbeEv(ReadContextProbe(file, io.probe)) >>]
    IN  IF ~io.read \/ f.msg = {}
        THEN Catch(f, [r0 EXCEPT !.trace = @ \o << ReadEv(<<>>, FALSE) >>],
                   ReadError, io)
        ELSE LET content == CHOOSE c \in f.msg : TRUE
                 raw == Trim(content)
                 parts == Split(raw)
                 r1 == [r0 EXCEPT !.trace = @ \o << ReadEv(content, TRUE) >>]
             IN  IF Malformed(parts)
                 THEN Cleanup(f, r1, "err", MalformedReason(Len(parts)), io)
                 ELSE LET d == Destructure(parts) IN
                      IF EmptyField(d)
                      THEN Cleanup(f, r1, "err",
                                   EmptyReason(d.sessionId, d.mode, d.message),
                                   io)
                      ELSE ProbeCheck(f,
                                      [r1 EXCEPT !.sessionId = d.sessionId,
                                                 !.mode = d.mode,
                                                 !.message = d.message],
                                      file, io)

\* The handler from its entry to its first suspension or its return.
Handle(f, r, file, io) ==
    IF ~io.read \/ f.msg = {}
    THEN Catch(f, [r EXCEPT !.trace = @ \o << ReadEv(<<>>, FALSE) >>],
               ReadError, io)
    ELSE LET content == CHOOSE c \in f.msg : TRUE
             raw == Trim(content)
             parts == Split(raw)
             r1 == [r EXCEPT !.trace = @ \o << ReadEv(content, TRUE) >>]
         IN  IF Malformed(parts)
             THEN Cleanup(f, r1, "err", MalformedReason(Len(parts)), io)
             ELSE LET d == Destructure(parts) IN
                  IF EmptyField(d)
                  THEN Cleanup(f, r1, "err",
                               EmptyReason(d.sessionId, d.mode, d.message), io)
                  ELSE ProbeCheck(f,
                                  [r1 EXCEPT !.sessionId = d.sessionId,
                                             !.mode = d.mode,
                                             !.message = d.message],
                                  file, io)

\* The step a suspended run is waiting for.
Awaited(r) == Steps(Branch(r.mode), r.message)[r.step]

\* The handler after the step it awaited has returned.
Resume(f, r, io) ==
    LET r1 == [r EXCEPT !.trace = @ \o << ReturnedEv(Awaited(r)) >>] IN
    IF r.step < Len(Steps(Branch(r.mode), r.message))
    THEN Invoke(f, r1, r.step + 1)
    ELSE Cleanup(f, r1, "ack", AckNote(Branch(r.mode), r.sessionId, clock),
                 io)

\* A handler without the catch block: the rejection leaves the async function
\* and nothing more of it runs.
RejectUncaught(f, r, error, io) ==
    [f |-> f,
     r |-> [r EXCEPT !.pc = "thrown",
                     !.trace = @ \o << RaisedEv(Awaited(r), error) >>]]

\* A handler that catches around each command and goes on with the branch.
RejectSwallowed(f, r, error, io) ==
    LET r1 == [r EXCEPT !.trace = @ \o << RaisedEv(Awaited(r), error) >>] IN
    IF r.step < Len(Steps(Branch(r.mode), r.message))
    THEN Invoke(f, r1, r.step + 1)
    ELSE Cleanup(f, r1, "ack", AckNote(Branch(r.mode), r.sessionId, clock),
                 io)

\* The handler after the command it awaited has thrown.
Reject(f, r, error, io) ==
    Catch(f, [r EXCEPT !.trace = @ \o << RaisedEv(Awaited(r), error) >>],
          error, io)

(***************************************************************************)
(* Actions.                                                                *)
(***************************************************************************)
\* Effects of a handler that keeps sessionId and message in variables of the
\* module: every suspended invocation, in the branch it has already taken,
\* sees the last values parsed.
CommitSharedLocals(id, res) ==
    /\ inbox' = [inbox EXCEPT ![id] = res.f]
    /\ run' = [i \in Ids |->
                 IF i = id THEN res.r
                 ELSE IF run[i].pc = "await" /\ res.r.mode # << >>
                 THEN [run[i] EXCEPT !.sessionId = res.r.sessionId,
                                     !.message = res.r.message]
                 ELSE run[i]]

\* Effects of a _cleanup that clears the warnings of the whole inbox when a
\* run ends.
CommitSweepsWarnings(id, res) ==
    /\ inbox' = [i \in Ids |->
                   IF i = id THEN res.f
                   ELSE IF res.r.pc = "done"
                   THEN [inbox[i] EXCEPT !.warn = {}]
                   ELSE inbox[i]]
    /\ run' = [run EXCEPT ![id] = res.r]

Commit(id, res) ==
    /\ inbox' = [inbox EXCEPT ![id] = res.f]
    /\ run' = [run EXCEPT ![id] = res.r]

\* The caller creates {id}.msg; the watcher queues onDidCreate for it.  What
\* the panel committed for an earlier request of the same name is forgotten.
CallerWrites(id, raw) ==
    /\ created < MaxRequests
    /\ run[id].pc \in {"none", "done"}
    /\ inbox[id].msg = {}
    /\ inbox' = [inbox EXCEPT ![id].msg = {raw}]
    /\ run' = [run EXCEPT ![id] = [NoRun EXCEPT !.pc = "notified"]]
    /\ created' = created + 1
    /\ host' = [host EXCEPT !.committed[id] = {}]
    /\ UNCHANGED << probe, clock >>

\* A watcher that holds the callback of a notification back while the
\* handler invocation of another request is suspended.
onDidCreateSerialised(id) ==
    /\ run[id].pc = "notified"
    /\ \A other \in Ids \ {id} : run[other].pc # "await"
    /\ \E io \in IOOutcomes : Commit(id, Handle(inbox[id], run[id], probe, io))
    /\ UNCHANGED << probe, created, clock, host >>

\* watcher.onDidCreate(async (uri) => ...), up to the first await.
onDidCreate(id) ==
    /\ run[id].pc = "notified"
    /\ \E io \in IOOutcomes : Commit(id, Handle(inbox[id], run[id], probe, io))
    /\ UNCHANGED << probe, created, clock, host >>

\* An awaited executeCommand resolves; the handler continues.
CommandResolves(id) ==
    /\ run[id].pc = "await"
    /\ Awaited(run[id]).op = "host"
    /\ \E io \in CleanupOutcomes : Commit(id, Resume(inbox[id], run[id], io))
    /\ \E ignored \in MayIgnore(Awaited(run[id])) :
          host' = HostTakes(host, id, Awaited(run[id]), ignored)
    /\ UNCHANGED << probe, created, clock >>

\* An awaited executeCommand rejects; the handler's catch block runs.
CommandRejects(id) ==
    /\ run[id].pc = "await"
    /\ Awaited(run[id]).op = "host"
    /\ \E io \in CleanupOutcomes, e \in HostErrors :
          Commit(id, Reject(inbox[id], run[id], e, io))
    /\ UNCHANGED << probe, created, clock, host >>

\* The timer of an awaited _delay fires; the handler continues.
TimerFires(id) ==
    /\ run[id].pc = "await"
    /\ Awaited(run[id]).op = "delay"
    /\ \E io \in CleanupOutcomes : Commit(id, Resume(inbox[id], run[id], io))
    /\ UNCHANGED << probe, created, clock, host >>

\* The qhoami extension writes or rewrites context.probe.
ProbeWritten(content) ==
    /\ probe # {content}
    /\ probe' = {content}
    /\ UNCHANGED << inbox, run, created, clock, host >>

\* context.probe is removed.
ProbeRemoved ==
    /\ probe # {}
    /\ probe' = {}
    /\ UNCHANGED << inbox, run, created, clock, host >>

\* The agent of the host starts or ends a request of its own.
HostTurns ==
    /\ host' = [host EXCEPT !.busy = ~@]
    /\ UNCHANGED << inbox, probe, run, created, clock >>

\* Time passes.
Tick ==
    /\ clock < MaxClock
    /\ clock' = clock + 1
    /\ UNCHANGED << inbox, probe, run, created, host >>

(***************************************************************************)
(* Inputs.                                                                 *)
(***************************************************************************)
\* The text "{sessionId}|{mode}|{message}" a caller writes.
Request(sessionId, mode, message) ==
    sessionId \o << Sep >> \o mode \o << Sep >> \o message

Abc == << "a", "b", "c" >>
Hello == << "hello" >>
World == << "world" >>
Bogus == << "bogus" >>

\* Request contents of every kind the handler tells apart.
Contents ==
    { Request(Abc, m, Hello) :
        m \in {SEND, STEER, STOP_AND_SEND, QUEUE, COMPACT, Bogus} }
    \cup { Request(Abc, SEND, Hello \o << Sep >> \o World),
           << " " >> \o Request(Abc, STEER, Hello) \o << "\n" >>,
           << >>,
           Abc \o << Sep >> \o SEND,
           Request(Abc, SEND, << >>) }

\* One request content for each way the handler ends: after one awaited
\* step, after three, on an unknown mode, on a malformed content.
SomeContents ==
    { Request(Abc, SEND, Hello), Request(Abc, STEER, World),
      Request(Abc, Bogus, Hello), << >> }

\* A session id longer than the eight characters an ack text keeps of it.
LongId == << "a", "b", "c", "d", "e", "f", "g", "h", "i", "j" >>
\* A request of each mode with the long session id, and one with a short one.
ClockContents ==
    { Request(LongId, m, Hello) : m \in {SEND, STEER, STOP_AND_SEND, QUEUE,
                                         COMPACT} }
    \cup { Request(Abc, SEND, Hello) }

\* Every string of at most MaxRawLen symbols over a small alphabet.
Alphabet == {Sep, " ", "x", "steer"}
RawInputs == UNION { [1..n -> Alphabet] : n \in 0..MaxRawLen }

ProbeFile(pct, patch, rsc, state) ==
    [context_pct |-> pct, patch |-> patch, rsc |-> rsc, state |-> state]

\* Probe files around both thresholds, with and without each line.
PctValues == {80, 81, 85, 95, 96, 97, NaN}
AllProbes ==
    [context_pct : {{}} \cup { {v} : v \in PctValues },
     patch : {{}, {10}},
     rsc : {{}, {42}},
     state : {{}, {"idle"}, {"running"}}]

\* A probe file in the warning zone, and one in the blocking zone: it makes a
\* send request warn and a steer request stop.
WarnProbe == ProbeFile({85}, {10}, {42}, {"running"})
BlockProbe == ProbeFile({97}, {10}, {42}, {"running"})
SomeProbes == {BlockProbe}

(***************************************************************************)
(* Specifications.                                                         *)
(***************************************************************************)
\* A step of the handler invocation of one of ids.
RunStep(ids) ==
    \/ \E id \in ids : onDidCreate(id)
    \/ \E id \in ids : CommandResolves(id)
    \/ \E id \in ids : CommandRejects(id)
    \/ \E id \in ids : TimerFires(id)

\* The extension with its environment: callers that create request files
\* (and reuse ids), the writer of the probe file, the host.
Next ==
    \/ \E id \in Ids, raw \in SomeContents : CallerWrites(id, raw)
    \/ RunStep(Ids)
    \/ \E content \in SomeProbes : ProbeWritten(content)
    \/ ProbeRemoved
Spec == Init /\ [][Next]_vars

\* The state in which onDidCreate is queued for the one request {id}.msg
\* with content raw, the probe file being file.
Notified(id, raw, file) ==
    /\ inbox = [i \in Ids |-> IF i = id THEN [NoFiles EXCEPT !.msg = {raw}]
                              ELSE NoFiles]
    /\ probe = file
    /\ run = [i \in Ids |-> IF i = id THEN [NoRun EXCEPT !.pc = "notified"]
                            ELSE NoRun]
    /\ created = 1
    /\ clock = 0
    /\ host = IdleHost

\* One request, every raw input; the probe file is there to be read (a read
\* of it that throws is the same as no file).
ParseInit ==
    \E raw \in RawInputs : Notified("req-a", raw, {WarnProbe})
ParseSpec == ParseInit /\ [][RunStep({"req-a"})]_vars

\* One request, every probe file.
ProbeInit ==
    \E raw \in Contents, file \in {{}} \cup { {p} : p \in AllProbes } :
        Notified("req-a", raw, file)
ProbeSpec == ProbeInit /\ [][RunStep({"req-a"})]_vars

\* One request while time passes.
ClockInit ==
    \E raw \in ClockContents, file \in {{}, {WarnProbe}} :
        Notified("req-a", raw, file)
ClockNext == RunStep({"req-a"}) \/ Tick
ClockSpec == ClockInit /\ [][ClockNext]_vars

\* One request of any mode, probe files with every state line, and a host
\* whose agent becomes busy and idle at any time.
HostProbes ==
    { ProbeFile(pct, {10}, {42}, state) :
        pct \in {{50}, {85}}, state \in {{}, {"idle"}, {"running"}} }
HostInit ==
    \E raw \in { Request(Abc, m, Hello) :
                   m \in {SEND, STEER, STOP_AND_SEND, QUEUE, COMPACT} },
       file \in {{}} \cup { {p} : p \in HostProbes } :
        Notified("req-a", raw, file)
HostNext == RunStep({"req-a"}) \/ HostTurns
HostSpec == HostInit /\ [][HostNext]_vars

\* Two requests created in quick succession: a steer or queue request with
\* the message "hello" and a request with the message "world", both queued.
RaceInit ==
    \E ma \in {STEER, QUEUE}, mb \in {SEND, STEER, QUEUE} :
        /\ inbox = [i \in Ids |->
                      [NoFiles EXCEPT !.msg =
                          {IF i = "req-a" THEN Request(Abc, ma, Hello)
                           ELSE Request(Abc, mb, World)}]]
        /\ probe = {}
        /\ run = [i \in Ids |-> [NoRun EXCEPT !.pc = "notified"]]
        /\ created = 2
        /\ clock = 0
        /\ host = IdleHost
RaceSpec == RaceInit /\ [][RunStep(Ids)]_vars

\* The same request twice, both queued, and a probe file whose state, patch
\* and rsc lines are rewritten at any time while its context_pct line stays.
PairProbes ==
    { ProbeFile(pct, {10}, {42}, {"running"}) : pct \in {{}, {85}, {97}} }
    \cup { ProbeFile(pct, {}, {7}, {"idle"}) : pct \in {{}, {85}, {97}} }
PairInit ==
    \E m \in {SEND, STEER, STOP_AND_SEND, QUEUE, COMPACT, Bogus},
       p \in PairProbes :
        /\ inbox = [i \in Ids |->
                      [NoFiles EXCEPT !.msg = {Request(Abc, m, Hello)}]]
        /\ probe = {p}
        /\ run = [i \in Ids |-> [NoRun EXCEPT !.pc = "notified"]]
        /\ created = 2
        /\ clock = 0
        /\ host = IdleHost
OtherFieldsRewritten ==
    /\ \E old \in probe, new \in PairProbes :
          /\ new # old
          /\ new.context_pct = old.context_pct
          /\ probe' = {new}
    /\ UNCHANGED << inbox, run, created, clock, host >>
PairNext == RunStep(Ids) \/ OtherFieldsRewritten
PairSpec == PairInit /\ [][PairNext]_vars

\* One request, every probe file, with a host that settles every command it
\* was given (it resolves or rejects the promise) and timers that fire; the
\* event loop runs the callback of a notification.
LiveSpec ==
    /\ ProbeSpec
    /\ WF_vars(onDidCreate("req-a"))
    /\ WF_vars(CommandResolves("req-a") \/ CommandRejects("req-a"))
    /\ WF_vars(TimerFires("req-a"))

(***************************************************************************)
(* Reading a run's trace.                                                  *)
(***************************************************************************)
IsTerminalWrite(e) == e.op = "write" /\ e.what \in {"ack", "err"}
IsWrite(e) == e.op = "write"
IsUnlink(e) == e.op = "unlink"
IsHost(e) == e.op = "host"
IsRaised(e) == e.op = "raised"

TerminalWrites(r) == SelectSeq(r.trace, IsTerminalWrite)
Unlinks(r) == SelectSeq(r.trace, IsUnlink)
HostCalls(r) == SelectSeq(r.trace, IsHost)
Raises(r) == SelectSeq(r.trace, IsRaised)

\* The run has returned from the handler.
Finished(r) == r.pc = "done"
\* The handler has been entered.
Started(r) == r.pc \in {"await", "done"}

(***************************************************************************)
(* C1.  A run that has finished, on whatever path, has made exactly one    *)
(* attempt to write a terminal outcome file (.ack or .err) and exactly one *)
(* attempt to unlink {id}.msg; a run that has not finished has made        *)
(* neither, so no run ever makes a second one.                             *)
(***************************************************************************)
C1_OneOutcomeOneRemoval ==
    \A id \in Ids :
        LET r == run[id]
            n == IF Finished(r) THEN 1 ELSE 0
        IN  /\ Len(TerminalWrites(r)) = n
            /\ Len(Unlinks(r)) = n

\* A run that finished in the catch block after a command had thrown.
C1_Witness ==
    \E id \in Ids :
        /\ Finished(run[id])
        /\ Raises(run[id]) # << >>
        /\ TerminalWrites(run[id])[1].what = "err"
        /\ Len(Unlinks(run[id])) = 1

(***************************************************************************)
(* Outcomes.                                                               *)
(***************************************************************************)
\* The reason texts: what an Errored outcome carries.
ReasonKinds ==
    {"Invalid format", "Empty field", "mode=steer blocked", "Unknown mode",
     "Exception"}

\* The terminal write of a finished run.
Outcome(r) == TerminalWrites(r)[1]
Errored(r) == Outcome(r).content.kind \in ReasonKinds
\* The file an outcome belongs in, and the other terminal file.
ExpectedExt(r) == IF Errored(r) THEN "err" ELSE "ack"
OtherExt(r) == IF Errored(r) THEN "ack" ELSE "err"

IsWarnWrite(e) == e.op = "write" /\ e.what = "warn"
WarnWrites(r) == SelectSeq(r.trace, IsWarnWrite)

\* No write and no unlink of the run has thrown.
NoIOFailure(r) ==
    \A i \in DOMAIN r.trace :
        r.trace[i].op \in {"write", "unlink"} => r.trace[i].ok

(***************************************************************************)
(* C2 as stated.  Whenever a run has finished, {id}.msg does not exist and *)
(* of {id}.ack and {id}.err exactly the one of the outcome's kind exists   *)
(* (with {id}.warn when the run warned): in every reachable state, failed  *)
(* writes and unlinks and reused ids included.                             *)
(***************************************************************************)
C2_AsStated ==
    \A id \in Ids :
        Finished(run[id]) =>
            /\ inbox[id].msg = {}
            /\ inbox[id][ExpectedExt(run[id])] # {}
            /\ inbox[id][OtherExt(run[id])] = {}
            /\ (WarnWrites(run[id]) # << >> => inbox[id].warn # {})

(***************************************************************************)
(* C2 amended.  In the step that ends a run none of whose writes and       *)
(* unlink has failed, the inbox afterwards holds no {id}.msg, holds the    *)
(* outcome in the file of its kind (and the warning in {id}.warn when the  *)
(* run warned), and holds no terminal file of the other kind unless        *)
(* {id}.ack or {id}.err was already there from an earlier use of the id.   *)
(***************************************************************************)
C2_ResolvedWhenIOSucceeds ==
    [][\A id \in Ids :
          (~Finished(run[id]) /\ Finished(run'[id]) /\ NoIOFailure(run'[id]))
          => /\ inbox'[id].msg = {}
             /\ inbox'[id][ExpectedExt(run'[id])] = {Outcome(run'[id]).content}
             /\ (WarnWrites(run'[id]) # << >> =>
                    inbox'[id].warn = {WarnWrites(run'[id])[1].content})
             /\ (inbox[id].ack = {} /\ inbox[id].err = {} =>
                    inbox'[id][OtherExt(run'[id])] = {})]_vars

\* A reused id resolved without an I/O failure: the request is gone, the
\* new .ack is there, and so is the .err of the earlier use.
C2_Witness ==
    \E id \in Ids :
        /\ Finished(run[id])
        /\ NoIOFailure(run[id])
        /\ ~Errored(run[id])
        /\ inbox[id].msg = {}
        /\ inbox[id].ack = {Outcome(run[id]).content}
        /\ inbox[id].err # {}

(***************************************************************************)
(* The request format, read off the text by the positions of its           *)
(* separators.                                                             *)
(***************************************************************************)
Least(S) == CHOOSE x \in S : \A y \in S : x <= y
Greatest(S) == CHOOSE x \in S : \A y \in S : x >= y

\* The text between the first and the last symbol that is not whitespace.
Stripped(s) ==
    LET solid == { i \in 1..Len(s) : s[i] \notin Whitespace } IN
    IF solid = {} THEN << >> ELSE SubSeq(s, Least(solid), Greatest(solid))

SepPositions(s) == { i \in 1..Len(s) : s[i] = Sep }
SegmentCount(s) == Cardinality(SepPositions(s)) + 1

\* The three fields of a text with at least two separators.
FieldsOf(s) ==
    LET i1 == Least(SepPositions(s))
        i2 == Least(SepPositions(s) \ {i1})
    IN  [sessionId |-> SubSeq(s, 1, i1 - 1),
         mode      |-> SubSeq(s, i1 + 1, i2 - 1),
         message   |-> SubSeq(s, i2 + 1, Len(s))]

\* The run has read its request file; the content it read, trimmed.
HasRead(r) ==
    Started(r) /\ r.trace # << >> /\ r.trace[1].op = "read" /\ r.trace[1].ok
Text(r) == Stripped(r.trace[1].content)

KnownModes == {SEND, STEER, STOP_AND_SEND, QUEUE, COMPACT}

(***************************************************************************)
(* C3.  A run whose request content, trimmed, has fewer than 3 segments    *)
(* ends in the callback that read it, with the .err reason "Invalid        *)
(* format" carrying the segment count, and has called no host command.     *)
(***************************************************************************)
C3_MalformedSegmentCount ==
    \A id \in Ids :
        LET r == run[id] IN
        (HasRead(r) /\ SegmentCount(Text(r)) < 3) =>
            /\ Finished(r)
            /\ Outcome(r).what = "err"
            /\ Outcome(r).content = MalformedReason(SegmentCount(Text(r)))
            /\ HostCalls(r) = << >>

\* A request of two segments, resolved.
C3_Witness ==
    \E id \in Ids :
        /\ HasRead(run[id])
        /\ SegmentCount(Text(run[id])) = 2
        /\ Finished(run[id])
        /\ Outcome(run[id]).content.kind = "Invalid format"
        /\ Outcome(run[id]).content.segments = 2

(***************************************************************************)
(* C4.  A run whose request content has 3 or more segments and an empty    *)
(* sessionId, mode or message ends in the callback that read it, with the  *)
(* .err reason "Empty field" (not "Invalid format") carrying the three     *)
(* fields; it has not read the probe, has not reached the dispatch on the  *)
(* mode and has called no host command.                                    *)
(***************************************************************************)
C4_EmptyField ==
    \A id \in Ids :
        LET r == run[id]
            d == FieldsOf(Text(r))
        IN  (/\ HasRead(r)
             /\ SegmentCount(Text(r)) >= 3
             /\ << >> \in {d.sessionId, d.mode, d.message}) =>
                /\ Finished(r)
                /\ Outcome(r).what = "err"
                /\ Outcome(r).content =
                       EmptyReason(d.sessionId, d.mode, d.message)
                /\ Outcome(r).content.kind # MalformedReason(3).kind
                /\ HostCalls(r) = << >>
                /\ Len(r.trace) = 3

\* A request whose mode alone is empty, resolved.
C4_Witness ==
    \E id \in Ids :
        /\ HasRead(run[id])
        /\ SegmentCount(Text(run[id])) >= 3
        /\ FieldsOf(Text(run[id])).mode = << >>
        /\ FieldsOf(Text(run[id])).sessionId # << >>
        /\ FieldsOf(Text(run[id])).message # << >>
        /\ Finished(run[id])
        /\ Outcome(run[id]).content.kind = "Empty field"

(***************************************************************************)
(* C5.  For a request content of 3 or more segments the handler's          *)
(* sessionId, mode and message are the text before the first separator,    *)
(* the text between the first two, and all the text after the second (its  *)
(* separators kept): joined by separators they give back the trimmed       *)
(* content, and the message is the query of every chat.open call.  When a  *)
(* field is empty the same three values are what the reason carries.       *)
(***************************************************************************)
C5_MessageRejoined ==
    \A id \in Ids :
        LET r == run[id]
            d == FieldsOf(Text(r))
        IN  (HasRead(r) /\ SegmentCount(Text(r)) >= 3) =>
                IF << >> \in {d.sessionId, d.mode, d.message}
                THEN Finished(r) /\ Outcome(r).content =
                         EmptyReason(d.sessionId, d.mode, d.message)
                ELSE /\ r.sessionId = d.sessionId
                     /\ r.mode = d.mode
                     /\ r.message = d.message
                     /\ Request(r.sessionId, r.mode, r.message) = Text(r)
                     /\ \A i \in DOMAIN HostCalls(r) :
                            HostCalls(r)[i].what = openAndSubmit =>
                                HostCalls(r)[i].query = d.message

\* "x|steer|x|x" has been opened with the query "x|x".
C5_Witness ==
    \E id \in Ids :
        /\ HasRead(run[id])
        /\ Text(run[id]) = << "x", Sep, "steer", Sep, "x", Sep, "x" >>
        /\ run[id].message = << "x", Sep, "x" >>
        /\ HostCalls(run[id]) = << Open(<< "x", Sep, "x" >>, TRUE) >>

(***************************************************************************)
(* C9.  A run whose request parses to three non-empty fields with a mode   *)
(* that is none of the five mode strings ends in the callback that read    *)
(* it, with the .err reason "Unknown mode" naming the mode and listing the *)
(* five supported modes, a reason that is neither of the parse failures;   *)
(* it has called no host command.                                          *)
(***************************************************************************)
C9_UnknownMode ==
    \A id \in Ids :
        LET r == run[id]
            d == FieldsOf(Text(r))
        IN  (/\ HasRead(r)
             /\ SegmentCount(Text(r)) >= 3
             /\ << >> \notin {d.sessionId, d.mode, d.message}
             /\ d.mode \notin KnownModes) =>
                /\ Finished(r)
                /\ Outcome(r).what = "err"
                /\ Outcome(r).content.kind = "Unknown mode"
                /\ Outcome(r).content.mode = d.mode
                /\ { Outcome(r).content.supported[i] : i \in 1..5 } = KnownModes
                /\ Outcome(r).content.kind \notin
                       {MalformedReason(3).kind, EmptyReason(d.sessionId, d.mode, d.message).kind}
                /\ HostCalls(r) = << >>

\* The mode "send " (send and a blank) is unknown: the comparison is exact.
C9_Witness ==
    \E id \in Ids :
        /\ HasRead(run[id])
        /\ SegmentCount(Text(run[id])) >= 3
        /\ FieldsOf(Text(run[id])).mode = << "steer", " " >>
        /\ Finished(run[id])
        /\ Outcome(run[id]).content.kind = "Unknown mode"
        /\ HostCalls(run[id]) = << >>

(***************************************************************************)
(* The advisory a run has read, and what a run did from its dispatch on.   *)
(***************************************************************************)
IsProbeRead(e) == e.op = "probe"
\* The run has read the probe and got an advisory (not null).
HasAdvisory(r) ==
    /\ SelectSeq(r.trace, IsProbeRead) # << >>
    /\ SelectSeq(r.trace, IsProbeRead)[1].result # {}
Advisory(r) == CHOOSE p \in SelectSeq(r.trace, IsProbeRead)[1].result : TRUE

\* The context_pct line of the probe file is a number above level.
PctLineAbove(file, level) ==
    \E content \in file : \E v \in content.context_pct : v # NaN /\ v > level

\* The mode and message of the request the run has read.
ModeOf(r) == FieldsOf(Text(r)).mode
MessageOf(r) == FieldsOf(Text(r)).message
Parsed(r) ==
    /\ HasRead(r)
    /\ SegmentCount(Text(r)) >= 3
    /\ << >> \notin {FieldsOf(Text(r)).sessionId, ModeOf(r), MessageOf(r)}

\* A trace entry without what the file system answered and without the texts.
Plain(e) ==
    CASE e.op = "write" ->
            [op |-> "write", what |-> e.what, kind |-> e.content.kind]
      [] e.op = "unlink" -> [op |-> "unlink"]
      [] e.op = "raised" -> [op |-> "raised", what |-> e.what]
      [] OTHER -> e
PlainWrite(ext, content) ==
    [op |-> "write", what |-> ext, kind |-> content.kind]
PlainUnlink == [op |-> "unlink"]
PlainRaised(step) == [op |-> "raised", what |-> step.what]

\* The calls, their returns and throws, the delays, the terminal write and
\* the unlink of a run, in order.
IsDispatchEv(e) ==
    \/ e.op \in {"host", "delay", "returned", "raised", "unlink"}
    \/ IsTerminalWrite(e)
DispatchTrace(r) ==
    LET t == SelectSeq(r.trace, IsDispatchEv) IN
    [i \in 1..Len(t) |-> Plain(t[i])]

IsPrefix(a, b) == Len(a) <= Len(b) /\ a = SubSeq(b, 1, Len(a))

(***************************************************************************)
(* C6.  A steer request that met a probe file whose context_pct is above   *)
(* 95 (and could read it) has ended in the callback that read it: the .err *)
(* reason is "mode=steer blocked" with the percentage, the limit 95 and    *)
(* the hint to use mode=compact; no host command has been called; the      *)
(* unlink of {id}.msg has been attempted, and the file is gone when the    *)
(* unlink did not throw.                                                   *)
(***************************************************************************)
C6_SteerBlocked ==
    \A id \in Ids :
        LET r == run[id] IN
        (/\ Parsed(r)
         /\ ModeOf(r) = STEER
         /\ HasAdvisory(r)
         /\ PctLineAbove(probe, 95)) =>
            /\ Finished(r)
            /\ Outcome(r).what = "err"
            /\ Outcome(r).content.kind = "mode=steer blocked"
            /\ {Outcome(r).content.contextPct} =
                   (CHOOSE content \in probe : TRUE).context_pct
            /\ Outcome(r).content.limit = 95
            /\ Outcome(r).content.hint = COMPACT
            /\ HostCalls(r) = << >>
            /\ Len(Unlinks(r)) = 1
            /\ (Unlinks(r)[1].ok => inbox[id].msg = {})

\* The steer request blocked at context_pct 97, its file removed.
C6_Witness ==
    \E id \in Ids :
        /\ Parsed(run[id])
        /\ ModeOf(run[id]) = STEER
        /\ HasAdvisory(run[id])
        /\ Advisory(run[id]).contextPct = 97
        /\ Finished(run[id])
        /\ Outcome(run[id]).content.kind = "mode=steer blocked"
        /\ inbox[id].msg = {}

(***************************************************************************)
(* C7 as stated.  A send request that met an advisory with context_pct     *)
(* above 80 and has finished has written .warn, then called chat.open      *)
(* (message, not partial) once, then written .ack.                         *)
(***************************************************************************)
C7_AsStated ==
    \A id \in Ids :
        LET r == run[id] IN
        (/\ Parsed(r) /\ ModeOf(r) = SEND
         /\ HasAdvisory(r) /\ PctLineAbove(probe, 80)
         /\ Finished(r)) =>
            /\ WarnWrites(r) # << >>
            /\ HostCalls(r) = << Open(MessageOf(r), FALSE) >>
            /\ Outcome(r).what = "ack"

(***************************************************************************)
(* C7 amended.  A send request that met an advisory with context_pct above *)
(* 80 has, after reading the probe, first attempted the .warn write and    *)
(* then called chat.open (message, not partial), its only host call.  If   *)
(* the call returned, the run then wrote .ack; if it threw, the run wrote  *)
(* .err with the exception instead, and no .ack.                           *)
(***************************************************************************)
C7_WarnThenSend ==
    \A id \in Ids :
        LET r == run[id]
            t == SubSeq(r.trace, 3, Len(r.trace))
        IN  (/\ Parsed(r) /\ ModeOf(r) = SEND
             /\ HasAdvisory(r) /\ PctLineAbove(probe, 80)) =>
                /\ Len(t) >= 2
                /\ IsWarnWrite(t[1])
                /\ t[1].content =
                       WarnText(Advisory(r).contextPct, Advisory(r).patch)
                /\ t[2] = Open(MessageOf(r), FALSE)
                /\ HostCalls(r) = << t[2] >>
                /\ Len(WarnWrites(r)) = 1
                /\ IF Finished(r)
                   THEN /\ Len(t) = 5
                        /\ t[3].op \in {"returned", "raised"}
                        /\ IsTerminalWrite(t[4])
                        /\ t[3].op = "returned" =>
                              /\ t[4].what = "ack"
                              /\ t[4].content =
                                     AckNote("send", r.sessionId,
                                             t[4].content.at)
                        /\ t[3].op = "raised" =>
                              /\ t[4].what = "err"
                              /\ t[4].content = ExceptionReason(t[3].error)
                   ELSE Len(t) = 2

\* The send request at context_pct 85: .warn, chat.open, it returned, .ack.
C7_Witness ==
    \E id \in Ids :
        LET r == run[id] IN
        /\ Parsed(r) /\ ModeOf(r) = SEND
        /\ HasAdvisory(r) /\ Advisory(r).contextPct = 85
        /\ Finished(r)
        /\ IsWarnWrite(r.trace[3])
        /\ r.trace[4] = Open(MessageOf(r), FALSE)
        /\ r.trace[5].op = "returned"
        /\ r.trace[6].op = "write" /\ r.trace[6].what = "ack"

(***************************************************************************)
(* C8.  What a stop-and-send request has done from its dispatch on is an   *)
(* initial part of: chat.cancel called, returned, delay of 300 ms started, *)
(* elapsed, chat.open (message, not partial) called, returned, .ack        *)
(* written, {id}.msg unlinked; or it is that up to one of the two calls,   *)
(* followed by the call throwing, .err written, {id}.msg unlinked.         *)
(***************************************************************************)
StopAndSendReturning(message) ==
    << Command(cancelCurrent), ReturnedEv(Command(cancelCurrent)),
       Delay(StopDelayMs), ReturnedEv(Delay(StopDelayMs)),
       Open(message, FALSE), ReturnedEv(Open(message, FALSE)),
       PlainWrite("ack", AckNote("stop-and-send", << >>, 0)), PlainUnlink >>
StopAndSendThrowing(message, at) ==
    SubSeq(StopAndSendReturning(message), 1, at)
    \o << PlainRaised(StopAndSendReturning(message)[at]),
          PlainWrite("err", ExceptionReason("")), PlainUnlink >>

C8_StopAndSendOrder ==
    \A id \in Ids :
        LET r == run[id] IN
        (Parsed(r) /\ ModeOf(r) = STOP_AND_SEND) =>
            \/ IsPrefix(DispatchTrace(r), StopAndSendReturning(MessageOf(r)))
            \/ \E at \in {1, 5} :
                  IsPrefix(DispatchTrace(r),
                           StopAndSendThrowing(MessageOf(r), at))

\* A stop-and-send request that went through all of it.
C8_Witness ==
    \E id \in Ids :
        /\ Parsed(run[id])
        /\ ModeOf(run[id]) = STOP_AND_SEND
        /\ Finished(run[id])
        /\ DispatchTrace(run[id]) = StopAndSendReturning(MessageOf(run[id]))

(***************************************************************************)
(* C10.  Two invocations of the handler for different ids.                 *)
(***************************************************************************)
InFlight(r) == r.pc \in {"notified", "await"}

\* What only the event loop owes an invocation is never held back by the
\* other one: the callback of a notification can run, and an awaited call
\* or timer can settle, whatever the other invocation is doing.
CanProceed(id) ==
    /\ run[id].pc = "notified" => ENABLED onDidCreate(id)
    /\ (run[id].pc = "await" /\ Awaited(run[id]).op = "host") =>
           /\ ENABLED CommandResolves(id)
           /\ ENABLED CommandRejects(id)
    /\ (run[id].pc = "await" /\ Awaited(run[id]).op = "delay") =>
           ENABLED TimerFires(id)

\* The host calls an invocation has made are the first ones of the branch of
\* its own request, and it has written .ack exactly when all of them
\* returned.
HostSteps(r) ==
    IF Parsed(r)
    THEN LET d == FieldsOf(Text(r)) IN
         SelectSeq(Steps(Branch(d.mode), d.message), IsHost)
    ELSE << >>
OwnRequestOnly(r) ==
    LET own == HostSteps(r)
        made == HostCalls(r)
    IN  /\ IsPrefix(made, own)
        /\ Finished(r) =>
              (Outcome(r).what = "ack" <=>
                  /\ own # << >>
                  /\ made = own
                  /\ Raises(r) = << >>)

\* A step of one invocation leaves the other invocation and its files as
\* they were.
OthersUntouched ==
    \A i \in Ids : \A j \in Ids \ {i} :
        run'[i] # run[i] => (run'[j] = run[j] /\ inbox'[j] = inbox[j])

\* C10: while one invocation is suspended, has thrown or has ended, the other
\* can still take each of its steps, takes them on its own request alone, and
\* no step of one changes the state, the files or the record of the other.
C10_Independent ==
    /\ [](\A id \in Ids : Started(run[id]) => OwnRequestOnly(run[id]))
    /\ [](\A id \in Ids : InFlight(run[id]) => CanProceed(id))
    /\ [][OthersUntouched]_vars

\* One invocation is suspended in its first host call while the other has made
\* all the host calls of its own request and ended with .ack.
C10_Witness ==
    \E i \in Ids : \E j \in Ids \ {i} :
        /\ run[i].pc = "await" /\ Len(HostCalls(run[i])) = 1
        /\ Finished(run[j]) /\ Outcome(run[j]).what = "ack"
        /\ HostCalls(run[j]) = HostSteps(run[j])


(***************************************************************************)
(* The outcome files of a run.                                             *)
(***************************************************************************)
\* The files a run has attempted to write, and those of them it has written.
AttemptedExts(r) ==
    { r.trace[i].what : i \in { j \in DOMAIN r.trace : IsWrite(r.trace[j]) } }
WrittenExts(r) ==
    { r.trace[i].what :
        i \in { j \in DOMAIN r.trace : IsWrite(r.trace[j]) /\ r.trace[j].ok } }

\* The run has read an advisory above the warning level and was not blocked.
WarnDue(r) ==
    /\ Parsed(r)
    /\ HasAdvisory(r)
    /\ Gt(Advisory(r).contextPct, 80)
    /\ ~(ModeOf(r) = STEER /\ Gt(Advisory(r).contextPct, 95))

(***************************************************************************)
(* C11 as stated.  The files a finished run has attempted to write are     *)
(* {.ack}, {.err} or {.warn, .ack}.                                        *)
(***************************************************************************)
C11_AsStated ==
    \A id \in Ids :
        Finished(run[id]) =>
            AttemptedExts(run[id]) \in {{"ack"}, {"err"}, {"warn", "ack"}}

(***************************************************************************)
(* C11 amended.  The files a finished run has attempted to write are       *)
(* {.ack}, {.err}, {.warn, .ack} or {.warn, .err}: .warn never stands      *)
(* alone, and it goes with .err when the mode is unknown or a host command *)
(* threw after the warning.  Each file is attempted once; .warn is         *)
(* attempted exactly when the run read an advisory above 80 and was not    *)
(* blocked, and before the terminal file.  The files of the one request    *)
(* in the inbox are those whose write did not throw.                       *)
(***************************************************************************)
C11_OutcomeFiles ==
    \A id \in Ids :
        LET r == run[id] IN
        /\ Finished(r) =>
              /\ AttemptedExts(r) \in
                     {{"ack"}, {"err"}, {"warn", "ack"}, {"warn", "err"}}
              /\ AttemptedExts(r) = {"warn", "err"} =>
                     Outcome(r).content.kind \in {"Unknown mode", "Exception"}
              /\ { x \in {"ack", "err", "warn"} : inbox[id][x] # {} }
                     = WrittenExts(r)
        /\ Started(r) =>
              /\ Len(WarnWrites(r)) = (IF WarnDue(r) THEN 1 ELSE 0)
              /\ \A i, j \in DOMAIN r.trace :
                     (IsWarnWrite(r.trace[i]) /\ IsTerminalWrite(r.trace[j]))
                         => i < j

\* An unknown mode at context_pct 85: .warn and .err, both written.
C11_Witness ==
    \E id \in Ids :
        /\ Finished(run[id])
        /\ WrittenExts(run[id]) = {"warn", "err"}
        /\ Outcome(run[id]).content.kind = "Unknown mode"
        /\ Advisory(run[id]).contextPct = 85


(***************************************************************************)
(* C12.  A handler invocation that is suspended at an await is later       *)
(* finished, with one attempt to write the terminal file and one attempt   *)
(* to unlink {id}.msg made, provided the host settles every command and    *)
(* every timer fires.  A run rests nowhere else: the callback that starts  *)
(* it, and every continuation, ends suspended at the next await or         *)
(* finished.                                                               *)
(***************************************************************************)
Resolved(r) ==
    /\ Finished(r)
    /\ Len(TerminalWrites(r)) = 1
    /\ Len(Unlinks(r)) = 1

C12_RunsToCompletion ==
    /\ \A id \in Ids : (run[id].pc = "await") ~> Resolved(run[id])
    /\ [][\A id \in Ids :
             (run[id].pc \in {"notified", "await"} /\ run'[id] # run[id])
                 => (run'[id].pc = "await" \/ Resolved(run'[id]))]_vars

\* A queue request that went through its three awaits and was acknowledged.
C12_Witness ==
    \E id \in Ids :
        /\ Resolved(run[id])
        /\ Parsed(run[id]) /\ ModeOf(run[id]) = QUEUE
        /\ Len(HostCalls(run[id])) = 2
        /\ Outcome(run[id]).what = "ack"


(***************************************************************************)
(* The ack text.                                                           *)
(***************************************************************************)
\* The first eight characters of the session id of the request.
SessionPrefix(r) ==
    LET sid == FieldsOf(Text(r)).sessionId IN
    IF Len(sid) <= 8 THEN sid ELSE SubSeq(sid, 1, 8)

\* What the ack text calls each mode.
AckLabel(mode) ==
    CASE mode = SEND -> "sent"
      [] mode = STEER -> "steered (steerWithMessage)"
      [] mode = STOP_AND_SEND -> "stop-and-send"
      [] mode = QUEUE -> "queued (queueMessage)"
      [] mode = COMPACT -> "compact: opened context usage panel"

\* The step ends the run of id with an .ack.
Acknowledges(id) ==
    /\ ~Finished(run[id])
    /\ Finished(run'[id])
    /\ Outcome(run'[id]).what = "ack"

(***************************************************************************)
(* C13 as stated.  In the step that acknowledges a request, of whichever   *)
(* mode, the ack text carries the first eight characters of the session id *)
(* and the time of that step.                                              *)
(***************************************************************************)
C13_AsStated ==
    [][\A id \in Ids :
          Acknowledges(id) =>
              /\ Outcome(run'[id]).content.sid = {SessionPrefix(run'[id])}
              /\ Outcome(run'[id]).content.at = clock]_vars

(***************************************************************************)
(* C13 amended.  In the step that acknowledges a request the ack text      *)
(* carries the time of that step and the label of the mode (sent, steered, *)
(* stop-and-send, queued, compact); for send, steer, stop-and-send and     *)
(* queue it carries the first eight characters of the session id, for      *)
(* compact it carries no session id.                                       *)
(***************************************************************************)
C13_AckNote ==
    [][\A id \in Ids :
          Acknowledges(id) =>
              LET r == run'[id]
                  note == Outcome(r).content
              IN  /\ ModeOf(r) \in KnownModes
                  /\ note.kind = AckLabel(ModeOf(r))
                  /\ note.at = clock
                  /\ note.sid = IF ModeOf(r) = COMPACT THEN {}
                                ELSE {SessionPrefix(r)}]_vars

\* A steer request acknowledged at time 2, its session id cut to "abcdefgh".
C13_Witness ==
    \E id \in Ids :
        /\ Finished(run[id])
        /\ Parsed(run[id])
        /\ ModeOf(run[id]) = STEER
        /\ Outcome(run[id]).what = "ack"
        /\ Outcome(run[id]).content.sid =
               {<< "a", "b", "c", "d", "e", "f", "g", "h" >>}
        /\ FieldsOf(Text(run[id])).sessionId = LongId
        /\ Outcome(run[id]).content.at = 2


(***************************************************************************)
(* The strategy table.                                                     *)
(***************************************************************************)
\* The row of a mode: the host commands and the delay, in order.
StrategyRow(mode, message) ==
    CASE mode = SEND -> << Open(message, FALSE) >>
      [] mode = STEER ->
            << Open(message, TRUE), Delay(100), Command(interruptAndSubmit) >>
      [] mode = STOP_AND_SEND ->
            << Command(cancelCurrent), Delay(300), Open(message, FALSE) >>
      [] mode = QUEUE ->
            << Open(message, TRUE), Delay(100), Command(enqueue) >>
      [] mode = COMPACT -> << Command(showUsagePanel) >>

\* A row with the return of each step after it.
Alternating(row) ==
    [i \in 1..(2 * Len(row)) |->
        IF i % 2 = 1 THEN row[(i + 1) \div 2] ELSE ReturnedEv(row[i \div 2])]

\* The commands and delays of a run and what came back from them, in order.
IsCallEv(e) == e.op \in {"host", "delay", "returned", "raised"}
CallTrace(r) == SelectSeq(r.trace, IsCallEv)

\* The run read an advisory above 95 for a steer request.
WasBlocked(r) ==
    /\ HasAdvisory(r)
    /\ ModeOf(r) = STEER
    /\ Gt(Advisory(r).contextPct, 95)

(***************************************************************************)
(* C14.  For a request with three non-empty fields and one of the five     *)
(* modes, not blocked, none of whose commands has thrown: what the run has *)
(* called and got back is an initial part of the row of its mode with each *)
(* step followed by its return, so a step is issued only after the one     *)
(* before it has returned; when the run has finished it is the whole row,  *)
(* nothing added and nothing left out.  A queue request never calls the    *)
(* steer command or the cancel command.                                    *)
(***************************************************************************)
C14_StrategyRow ==
    \A id \in Ids :
        LET r == run[id] IN
        (Parsed(r) /\ ModeOf(r) \in KnownModes /\ ~WasBlocked(r)) =>
            LET row == StrategyRow(ModeOf(r), MessageOf(r)) IN
            /\ Raises(r) = << >> =>
                  /\ IsPrefix(CallTrace(r), Alternating(row))
                  /\ Finished(r) => CallTrace(r) = Alternating(row)
                  /\ Finished(r) => Outcome(r).what = "ack"
            /\ ModeOf(r) = QUEUE =>
                  \A i \in DOMAIN HostCalls(r) :
                      HostCalls(r)[i].what
                          \notin {interruptAndSubmit, cancelCurrent}

\* A queue request that went through its row: prefill, delay, enqueue.
C14_Witness ==
    \E id \in Ids :
        /\ Finished(run[id])
        /\ Parsed(run[id])
        /\ ModeOf(run[id]) = QUEUE
        /\ Raises(run[id]) = << >>
        /\ HostCalls(run[id]) =
               << Open(MessageOf(run[id]), TRUE), Command(enqueue) >>
        /\ Len(CallTrace(run[id])) = 6


(***************************************************************************)
(* C15.  A send request none of whose commands has thrown never writes     *)
(* .err, and once chat.open has returned it has finished with .ack:        *)
(* whether the agent of the host was busy, whether the panel ignored the   *)
(* submitted message, and whatever the state line of the probe file says.  *)
(***************************************************************************)
C15_SendAcknowledged ==
    \A id \in Ids :
        LET r == run[id] IN
        (Parsed(r) /\ ModeOf(r) = SEND /\ Raises(r) = << >>) =>
            /\ "err" \notin AttemptedExts(r)
            /\ CallTrace(r) \in
                   { << Open(MessageOf(r), FALSE) >>,
                     << Open(MessageOf(r), FALSE),
                        ReturnedEv(Open(MessageOf(r), FALSE)) >> }
            /\ Len(CallTrace(r)) = 2 <=> Finished(r)
            /\ Finished(r) => Outcome(r).what = "ack"

\* A send acknowledged although the busy host ignored the message, the probe
\* file saying running.
C15_Witness ==
    \E id \in Ids :
        /\ Finished(run[id])
        /\ Parsed(run[id])
        /\ ModeOf(run[id]) = SEND
        /\ Outcome(run[id]).what = "ack"
        /\ id \in host.dropped
        /\ host.busy
        /\ HasAdvisory(run[id])
        /\ Advisory(run[id]).state = "running"


(***************************************************************************)
(* The policy decision.                                                    *)
(***************************************************************************)
\* The number on the context_pct line of the probe file: 0 without the line.
PctOf(file) ==
    LET line == (CHOOSE content \in file : TRUE).context_pct IN
    IF line = {} THEN 0 ELSE CHOOSE v \in line : TRUE

\* The decision as a function of the advisory and the mode.
Decision(present, pct, mode) ==
    IF present /\ pct # NaN /\ pct > 95 /\ mode = STEER THEN "Block"
    ELSE IF present /\ pct # NaN /\ pct > 80 THEN "WarnAndProceed"
    ELSE "Proceed"

\* The decision a run has acted on: it stopped with the block reason, or it
\* wrote the warning and went on to the mode chain, or it just went on.
ActedOn(r) ==
    IF Finished(r) /\ Outcome(r).content.kind = "mode=steer blocked"
    THEN "Block"
    ELSE IF WarnWrites(r) # << >> THEN "WarnAndProceed"
    ELSE "Proceed"

\* The run has gone on to the mode chain: it has made the first call of a
\* known mode, or has ended on the unknown mode.
Dispatched(r) ==
    IF ModeOf(r) \in KnownModes
    THEN /\ HostCalls(r) # << >>
         /\ HostCalls(r)[1] = StrategyRow(ModeOf(r), MessageOf(r))[1]
    ELSE Finished(r) /\ Outcome(r).content.kind = "Unknown mode"

(***************************************************************************)
(* C16.  A run whose request has three non-empty fields has acted on the   *)
(* decision that the probe file and the mode give: Block exactly when the  *)
(* advisory was read, context_pct > 95 and the mode is steer (no host      *)
(* call, .err); otherwise WarnAndProceed exactly when the advisory was     *)
(* read and context_pct > 80 (.warn written, then the mode chain);         *)
(* otherwise Proceed (no .warn, the mode chain).  At 95 a steer warns and  *)
(* goes on, at 80 nothing is written, and no mode but steer is blocked.    *)
(***************************************************************************)
C16_PolicyDecision ==
    \A id \in Ids :
        LET r == run[id] IN
        (Started(r) /\ Parsed(r)) =>
            LET present == HasAdvisory(r)
                pct == IF present THEN PctOf(probe) ELSE 0
                decision == Decision(present, pct, ModeOf(r))
            IN  /\ ActedOn(r) = decision
                /\ decision = "Block" =>
                       /\ HostCalls(r) = << >>
                       /\ WarnWrites(r) = << >>
                       /\ ModeOf(r) = STEER
                /\ decision = "WarnAndProceed" =>
                       /\ Len(WarnWrites(r)) = 1
                       /\ WarnWrites(r)[1].content.contextPct = pct
                       /\ Dispatched(r)
                /\ decision = "Proceed" =>
                       /\ WarnWrites(r) = << >>
                       /\ Dispatched(r)
                /\ (present /\ pct = 80) => decision = "Proceed"
                /\ (present /\ pct = 95) => decision = "WarnAndProceed"
                /\ ModeOf(r) # STEER => decision # "Block"

\* A steer request at context_pct 95: warned, and the prefill call made.
C16_Witness ==
    \E id \in Ids :
        /\ Started(run[id])
        /\ Parsed(run[id])
        /\ ModeOf(run[id]) = STEER
        /\ HasAdvisory(run[id])
        /\ PctOf(probe) = 95
        /\ Len(WarnWrites(run[id])) = 1
        /\ HostCalls(run[id]) # << >>


(***************************************************************************)
(* C17.  A run whose request has three non-empty fields and which found    *)
(* context.probe missing, or could not read it, or read it without a       *)
(* context_pct line that parses to a number, has written no .warn, has     *)
(* not been blocked and has gone on to the mode chain; it ends with the    *)
(* .err of an exception only if a host command threw.                      *)
(***************************************************************************)
ProbeMissing == probe = {}
ProbeUnreadable(r) == probe # {} /\ ~HasAdvisory(r)
NoPctLine == probe # {} /\ (CHOOSE c \in probe : TRUE).context_pct = {}
PctLineNoNumber == probe # {} /\ (CHOOSE c \in probe : TRUE).context_pct = {NaN}

C17_NoAdvisory ==
    \A id \in Ids :
        LET r == run[id] IN
        (/\ Started(r) /\ Parsed(r)
         /\ \/ ProbeMissing
            \/ ProbeUnreadable(r)
            \/ NoPctLine
            \/ PctLineNoNumber) =>
            /\ "warn" \notin AttemptedExts(r)
            /\ Dispatched(r)
            /\ Finished(r) =>
                  /\ Outcome(r).content.kind # "mode=steer blocked"
                  /\ Outcome(r).content.kind = "Exception" => Raises(r) # << >>
                  /\ (ModeOf(r) \in KnownModes /\ Raises(r) = << >>) =>
                         Outcome(r).what = "ack"

\* A steer request acknowledged although the probe file, which could not be
\* read, says 97.
C17_Witness ==
    \E id \in Ids :
        /\ Finished(run[id])
        /\ Parsed(run[id])
        /\ ModeOf(run[id]) = STEER
        /\ ProbeUnreadable(run[id])
        /\ PctOf(probe) = 97
        /\ Outcome(run[id]).what = "ack"


(***************************************************************************)
(* C18.  A run one of whose host commands has thrown has finished in the   *)
(* callback that caught it: the command that threw is the last one it      *)
(* called, so none of the later steps of the mode was made; it wrote .err  *)
(* with the reason "Exception" carrying the message of what was thrown,    *)
(* never .ack; it attempted the unlink of {id}.msg, and the file is gone   *)
(* when the unlink did not throw.                                          *)
(***************************************************************************)
C18_RaiseEndsRun ==
    \A id \in Ids :
        LET r == run[id]
            calls == CallTrace(r)
            row == StrategyRow(ModeOf(r), MessageOf(r))
        IN  Raises(r) # << >> =>
                /\ Finished(r)
                /\ Len(Raises(r)) = 1
                /\ calls[Len(calls)] = Raises(r)[1]
                /\ calls[Len(calls) - 1] = HostCalls(r)[Len(HostCalls(r))]
                /\ calls[Len(calls) - 1].what = Raises(r)[1].what
                /\ IsPrefix(SubSeq(calls, 1, Len(calls) - 1), Alternating(row))
                /\ Outcome(r).what = "err"
                /\ Outcome(r).content.kind = "Exception"
                /\ Outcome(r).content.error = Raises(r)[1].error
                /\ "ack" \notin AttemptedExts(r)
                /\ Len(Unlinks(r)) = 1
                /\ Unlinks(r)[1].ok => inbox[id].msg = {}

\* A stop-and-send request whose cancel command threw: no chat.open, .err,
\* the request file removed.
C18_Witness ==
    \E id \in Ids :
        /\ Finished(run[id])
        /\ Parsed(run[id])
        /\ ModeOf(run[id]) = STOP_AND_SEND
        /\ Raises(run[id]) # << >>
        /\ HostCalls(run[id]) = << Command(cancelCurrent) >>
        /\ Outcome(run[id]).content = ExceptionReason("command failed")
        /\ inbox[id].err = {ExceptionReason("command failed")}
        /\ inbox[id].msg = {}


(***************************************************************************)
(* C19.  Whatever the writes and the unlink of a run answered: a finished  *)
(* run ends with the attempt to write its terminal file followed by the    *)
(* attempt to unlink {id}.msg, one of each; a run of a known mode, not     *)
(* blocked, none of whose commands threw, attempted .ack and never .err,   *)
(* also when its .warn write or its .ack write threw; every run is queued, *)
(* suspended at an await or finished, never left by an exception; and a    *)
(* request that is queued can be processed whatever failed in the run of   *)
(* another request.                                                        *)
(***************************************************************************)
C19_BestEffortIO ==
    \A id \in Ids :
        LET r == run[id]
            n == Len(r.trace)
        IN  /\ r.pc \in {"none", "notified", "await", "done"}
            /\ Finished(r) =>
                  /\ n >= 2
                  /\ IsTerminalWrite(r.trace[n - 1])
                  /\ IsUnlink(r.trace[n])
                  /\ Len(TerminalWrites(r)) = 1
                  /\ Len(Unlinks(r)) = 1
            /\ (/\ Finished(r) /\ Parsed(r) /\ ModeOf(r) \in KnownModes
                /\ ~WasBlocked(r) /\ Raises(r) = << >>) =>
                  /\ Outcome(r).what = "ack"
                  /\ "err" \notin AttemptedExts(r)
            /\ r.pc = "notified" => ENABLED onDidCreate(id)

\* A send request whose .warn write and .ack write threw and whose unlink
\* did not: still the ack path (no .err attempted, the request file gone),
\* while the other request has been processed and acknowledged.
C19_Witness ==
    \E id \in Ids : \E other \in Ids \ {id} :
        /\ Finished(run[id])
        /\ Parsed(run[id])
        /\ ModeOf(run[id]) = SEND
        /\ WarnWrites(run[id]) # << >> /\ ~WarnWrites(run[id])[1].ok
        /\ Outcome(run[id]).what = "ack" /\ ~Outcome(run[id]).ok
        /\ Unlinks(run[id])[1].ok
        /\ inbox[id] = NoFiles
        /\ Finished(run[other])
        /\ Outcome(run[other]).what = "ack"
        /\ inbox[other].ack # {}


(***************************************************************************)
(* C20.  While a run is suspended at an await, the last thing it did is    *)
(* the call of a host command or the start of a delay that has not come    *)
(* back; it has attempted neither the .ack nor the .err write nor the      *)
(* unlink, {id}.msg is there and {id}.ack and {id}.err are not.  A run     *)
(* that has finished has nothing pending; if it wrote .ack, every step of  *)
(* the row of its mode has returned.                                       *)
(***************************************************************************)
Pending(r) ==
    /\ CallTrace(r) # << >>
    /\ CallTrace(r)[Len(CallTrace(r))].op \in {"host", "delay"}

C20_PendingUnresolved ==
    \A id \in Ids :
        LET r == run[id] IN
        /\ r.pc = "await" =>
              /\ Pending(r)
              /\ r.trace[Len(r.trace)] = CallTrace(r)[Len(CallTrace(r))]
              /\ TerminalWrites(r) = << >>
              /\ Unlinks(r) = << >>
              /\ inbox[id].msg # {}
              /\ inbox[id].ack = {}
              /\ inbox[id].err = {}
        /\ Pending(r) => r.pc = "await"
        /\ (Finished(r) /\ Outcome(r).what = "ack") =>
              CallTrace(r) =
                  Alternating(StrategyRow(ModeOf(r), MessageOf(r)))

\* A steer request suspended in its last command, the warning written: the
\* request file is there, no .ack and no .err.
C20_Witness ==
    \E id \in Ids :
        /\ run[id].pc = "await"
        /\ Parsed(run[id])
        /\ ModeOf(run[id]) = STEER
        /\ Len(HostCalls(run[id])) = 2
        /\ inbox[id].warn # {}
        /\ inbox[id].msg # {}
        /\ inbox[id].ack = {} /\ inbox[id].err = {}


(***************************************************************************)
(* C21.  Two requests in flight.                                           *)
(***************************************************************************)
\* A steer or queue run whose prefill has returned and whose steer or queue
\* command has not: it awaits the delay or that command.
BetweenPrefillAndCommit(r) ==
    /\ r.pc = "await"
    /\ Parsed(r)
    /\ ModeOf(r) \in {STEER, QUEUE}
    /\ Len(CallTrace(r)) \in {3, 5}

\* The messages of the requests that have been parsed.
MessagesInFlight == { MessageOf(run[id]) : id \in { i \in Ids : Parsed(run[i]) } }

\* C21: while a steer or queue run is between its prefill and its commit,
\* the other run can take its next step (its callback can run, its awaited
\* command can return), so the command of another request can come in
\* between; what the panel commits for a steer or queue request is what the
\* input box holds when its command returns, the message of one of the
\* requests in flight or nothing, not necessarily its own; and each run's own
\* calls still come in the order of the row of its mode.
C21_Interleaving ==
    \A id \in Ids :
        LET r == run[id] IN
        /\ BetweenPrefillAndCommit(r) =>
              \A other \in Ids \ {id} :
                  InFlight(run[other]) => CanProceed(other)
        /\ (Parsed(r) /\ ModeOf(r) \in {STEER, QUEUE} /\ Finished(r)
            /\ Outcome(r).what = "ack") =>
              \E text \in MessagesInFlight \cup {<< >>} :
                  host.committed[id] = {text}
        /\ (Parsed(r) /\ ModeOf(r) \in KnownModes /\ Raises(r) = << >>) =>
              IsPrefix(CallTrace(r),
                       Alternating(StrategyRow(ModeOf(r), MessageOf(r))))

\* The request "hello" was acknowledged, its own calls in order, and what
\* the panel committed for it is "world", the prefill of the other request.
C21_Witness ==
    \E id \in Ids : \E other \in Ids \ {id} :
        /\ Finished(run[id])
        /\ Parsed(run[id]) /\ Parsed(run[other])
        /\ ModeOf(run[id]) \in {STEER, QUEUE}
        /\ MessageOf(run[id]) = Hello
        /\ Outcome(run[id]).what = "ack"
        /\ CallTrace(run[id]) =
               Alternating(StrategyRow(ModeOf(run[id]), Hello))
        /\ MessageOf(run[other]) = World
        /\ host.committed[id] = {World}


(***************************************************************************)
(* C22.  When the advisory is read.                                        *)
(***************************************************************************)
ProbeReads(r) == SelectSeq(r.trace, IsProbeRead)

\* In every state: a run whose request parsed to three non-empty fields has
\* read the probe file once, right after the request file and before any
\* host call and any write; a run that ended on the segment count, on an
\* empty field or on a failed read of the request has not read the probe
\* file and has attempted no .warn.
ReadOnceAfterParsing(r) ==
    /\ Len(ProbeReads(r)) = (IF Parsed(r) THEN 1 ELSE 0)
    /\ Parsed(r) => IsProbeRead(r.trace[2])
    /\ ~Parsed(r) => "warn" \notin AttemptedExts(r)

\* In the step in which a run reads the probe file, what it gets is taken
\* from the file as it then is: nothing when there is no file, otherwise
\* nothing (the read threw) or the numbers and the state of that file.
ReadsFresh(id) ==
    (run[id].pc = "notified" /\ ProbeReads(run'[id]) # << >>) =>
        LET result == ProbeReads(run'[id])[1].result IN
        /\ probe = {} => result = {}
        /\ result # {} =>
              \E content \in probe, p \in result :
                  /\ content.context_pct # {} =>
                         content.context_pct = {p.contextPct}
                  /\ content.context_pct = {} => p.contextPct = 0
                  /\ content.patch # {} => content.patch = {p.patch}
                  /\ content.state # {} => content.state = {p.state}

C22_AdvisoryReadOnceFresh ==
    /\ [](\A id \in Ids : Started(run[id]) => ReadOnceAfterParsing(run[id]))
    /\ [][\A id \in Ids : ReadsFresh(id)]_vars

\* A reused id: the earlier request left its .warn (it read the probe file
\* at 97), the probe file was then removed, and the later request read no
\* advisory and wrote no .warn.
C22_Witness ==
    \E id \in Ids :
        /\ Finished(run[id])
        /\ Parsed(run[id])
        /\ probe = {}
        /\ ProbeReads(run[id])[1].result = {}
        /\ "warn" \notin AttemptedExts(run[id])
        /\ inbox[id].warn = {WarnText(97, 10)}


(***************************************************************************)
(* C23.  A step of the handler invocation for {id} leaves context.probe    *)
(* and the files of every other request as they are; of the files of {id}  *)
(* it changes only those it has just written without a throw ({id}.ack,    *)
(* {id}.err, {id}.warn) and {id}.msg when it has just unlinked it.         *)
(***************************************************************************)
\* What the step has added to the record of the run.
NewEvents(id) ==
    SubSeq(run'[id].trace, Len(run[id].trace) + 1, Len(run'[id].trace))

HandlerStep(id) ==
    /\ run[id].pc \in {"notified", "await"}
    /\ run'[id] # run[id]

C23_OwnFilesOnly ==
    [][\A id \in Ids :
          HandlerStep(id) =>
              /\ probe' = probe
              /\ \A other \in Ids \ {id} : inbox'[other] = inbox[other]
              /\ \A x \in {"ack", "err", "warn"} :
                    inbox'[id][x] # inbox[id][x] =>
                        \E i \in DOMAIN NewEvents(id) :
                            /\ IsWrite(NewEvents(id)[i])
                            /\ NewEvents(id)[i].what = x
                            /\ NewEvents(id)[i].ok
              /\ inbox'[id].msg # inbox[id].msg =>
                    /\ inbox'[id].msg = {}
                    /\ \E i \in DOMAIN NewEvents(id) :
                          IsUnlink(NewEvents(id)[i]) /\ NewEvents(id)[i].ok]_vars

\* One run has ended, its .warn and .ack written and its request removed,
\* while the probe file is there and the other request, with its file, waits
\* for its callback.
C23_Witness ==
    \E id \in Ids : \E other \in Ids \ {id} :
        /\ Finished(run[id])
        /\ WrittenExts(run[id]) = {"warn", "ack"}
        /\ inbox[id].msg = {}
        /\ probe # {}
        /\ run[other].pc = "notified"
        /\ inbox[other].msg # {}


(***************************************************************************)
(* C24.  Two runs on the same request content, the probe file of each with *)
(* the same context_pct line.                                              *)
(***************************************************************************)
\* A trace entry without the state, patch and rsc the run read and without
\* the patch count in the warning text.
WithoutOtherFields(e) ==
    CASE e.op = "probe" ->
            [op |-> "probe",
             result |-> { p.contextPct : p \in e.result }]
      [] e.op = "write" /\ e.what = "warn" ->
            [e EXCEPT !.content = [kind |-> e.content.kind,
                                   contextPct |-> e.content.contextPct]]
      [] OTHER -> e
Observed(r) == [i \in DOMAIN r.trace |-> WithoutOtherFields(r.trace[i])]

\* What the handler did in a trace entry, without what came back to it: the
\* file system's answer, or whether the command returned or threw.
Act(e) ==
    CASE e.op = "read" -> [op |-> "read"]
      [] e.op = "probe" -> [op |-> "probe"]
      [] e.op = "write" -> [op |-> "write", what |-> e.what,
                            content |-> e.content]
      [] e.op = "unlink" -> [op |-> "unlink"]
      [] e.op \in {"returned", "raised"} -> [op |-> "settled", what |-> e.what]
      [] OTHER -> e

\* The first place where two sequences differ, 0 when one begins the other.
FirstDifference(s, t) ==
    LET n == IF Len(s) < Len(t) THEN Len(s) ELSE Len(t)
        differing == { i \in 1..n : s[i] # t[i] }
    IN  IF differing = {} THEN 0 ELSE Least(differing)

\* C24: the records of the two runs, state, patch and rsc left out, go the
\* same way for as long as the file system and the host answer both runs
\* alike: where they first differ the handler did the same thing in both
\* (the same read, the same write of the same kind of file, the same
\* command) and only the answer differs.  So the decision, the host calls
\* and the kinds of files written are the same for the same answers.
C24_OtherFieldsIgnored ==
    LET a == Observed(run["req-a"])
        b == Observed(run["req-b"])
        k == FirstDifference(a, b)
    IN  /\ k # 0 => Act(a[k]) = Act(b[k])
        /\ (k = 0 /\ Finished(run["req-a"]) /\ Finished(run["req-b"])) =>
              /\ a = b
              /\ HostCalls(run["req-a"]) = HostCalls(run["req-b"])
              /\ AttemptedExts(run["req-a"]) = AttemptedExts(run["req-b"])

\* Both runs have ended with the same record, .warn and .ack, although one
\* read state running, patch 10, rsc 42 and the other state idle, no patch
\* line, rsc 7, and their warnings differ in the patch count.
C24_Witness ==
    /\ Finished(run["req-a"]) /\ Finished(run["req-b"])
    /\ Observed(run["req-a"]) = Observed(run["req-b"])
    /\ HasAdvisory(run["req-a"]) /\ HasAdvisory(run["req-b"])
    /\ Advisory(run["req-a"]).state = "running"
    /\ Advisory(run["req-b"]).state = "idle"
    /\ Advisory(run["req-a"]).patch # Advisory(run["req-b"]).patch
    /\ Advisory(run["req-a"]).rsc # Advisory(run["req-b"]).rsc
    /\ inbox["req-a"].warn # {} /\ inbox["req-b"].warn # {}
    /\ inbox["req-a"].warn # inbox["req-b"].warn
    /\ inbox["req-a"].ack # {} /\ inbox["req-b"].ack # {}

=============================================================================
